---------------------------- MODULE Spec2Model ----------------------------
(***************************************************************************)
(* A model of the document-agent backend: the vector store service         *)
(* (services/vector_store.py), the text chunker                            *)
(* (services/text_processor.py) and the background ingestion of an          *)
(* uploaded file (api/file_processing.py).                                  *)
(*                                                                          *)
(* Texts are sequences of one-character strings.  Embedding vectors are     *)
(* two-dimensional integer vectors with integer Euclidean norms, so that    *)
(* the ordering of cosine similarities is computed exactly.                 *)
(***************************************************************************)
EXTENDS Integers, Sequences, FiniteSets, TLC

VARIABLES
    qdrant,        \* VectorStoreService.qdrant is set (external backend) or None
    collections,   \* per service instance: self.collections, the in-memory fallback
    qdrantDb,      \* the collections held by the external Qdrant server
    ret,           \* the last call on the vector store: its arguments and outcome
    cleared,       \* history: ids deleted by a call, with no add to them since
    settings,      \* config.settings: CHUNK_SIZE and CHUNK_OVERLAP
    text,          \* the text handed to chunk_text
    method,        \* the chunking method asked for ("none" before the call)
    similar,       \* the sentence pairs the similarity matrix puts above the threshold
    chunks,        \* what chunk_text returned
    files,         \* the file_metadata table: file id -> row
    disk,          \* the upload directory: file path -> what the file holds
    uploads,       \* the number of files uploaded so far
    pending,       \* the background tasks added and not yet started (their arguments)
    task,          \* the run of process_file_background in progress, or the last one
    now,           \* int(time.time())
    reply,         \* the last call of process_message: its arguments and outcome
    writers,       \* the threads that call add_vector: where each is in its call
    lists,         \* per collection id: how many list objects the writers stored under it
    addLog         \* history: the adds the writers started, and which overlapped

storeVars == <<qdrant, collections, qdrantDb, ret, cleared>>

chunkVars == <<settings, text, method, similar, chunks>>

appVars == <<files, disk, uploads, pending, task, now>>

ragVars == <<reply>>

concVars == <<writers, lists, addLog>>

vars == <<qdrant, collections, qdrantDb, ret, cleared,
          settings, text, method, similar, chunks,
          files, disk, uploads, pending, task, now, reply,
          writers, lists, addLog>>

-----------------------------------------------------------------------------
(* Bounds of the model *)

\* most entries the store is filled with by direct calls, over all collections
MaxEntries == 2
\* most pieces (characters or the heading word) a text to chunk is made of
MaxPieces == 4
\* most calls of add_vector the concurrent writers make
MaxAdds == 3
\* most sentences of a text given to semantic chunking
MaxSentences == 3
\* most files uploaded
MaxFiles == 2
\* the last second the clock reaches
MaxTime == 1

-----------------------------------------------------------------------------
(* Generic helpers *)

Min(a, b) == IF a <= b THEN a ELSE b

\* dict assignment d[k] = v
Put(d, k, v) == [x \in (DOMAIN d) \cup {k} |-> IF x = k THEN v ELSE d[x]]

\* del d[k]
Del(d, k) == [x \in (DOMAIN d) \ {k} |-> d[x]]

\* s[:n] for n >= 0
Take(s, n) == SubSeq(s, 1, Min(n, Len(s)))

-----------------------------------------------------------------------------
(* Strings: sequences of one-character strings *)

NL == "\n"

\* str.isspace for the characters of the model
IsSpace(ch) == ch \in {" ", NL}

\* the sentence terminators of the pattern [.!?]
IsTerminator(ch) == ch \in {".", "!", "?"}

\* s[i:] for 0-based i >= 0
From(s, i) == SubSeq(s, i + 1, Len(s))

\* s[i:j] for 0-based 0 <= i <= j
Slice(s, i, j) == SubSeq(s, i + 1, Min(j, Len(s)))

RECURSIVE lstrip(_)
lstrip(s) == IF s # <<>> /\ IsSpace(s[1]) THEN lstrip(Tail(s)) ELSE s

RECURSIVE rstrip(_)
rstrip(s) ==
    IF s # <<>> /\ IsSpace(s[Len(s)]) THEN rstrip(SubSeq(s, 1, Len(s) - 1)) ELSE s

\* str.strip()
strip(s) == rstrip(lstrip(s))

\* s[-n:] if len(s) > n else ""   (n > 0)
OverlapTail(s, n) == IF Len(s) > n THEN SubSeq(s, Len(s) - n + 1, Len(s)) ELSE <<>>

\* s starts with the sequence w at 0-based position i
StartsAt(s, i, w) == i + Len(w) <= Len(s) /\ SubSeq(s, i + 1, i + Len(w)) = w

\* str.split(sep) for a non-empty separator: the pieces between the
\* occurrences of sep, found left to right without overlap (empty pieces kept)
RECURSIVE SplitOn(_, _, _)
SplitOn(s, sep, cur) ==
    IF s = <<>> THEN <<cur>>
    ELSE IF StartsAt(s, 0, sep) THEN <<cur>> \o SplitOn(From(s, Len(sep)), sep, <<>>)
    ELSE SplitOn(Tail(s), sep, Append(cur, s[1]))

\* re.split(r'[.!?]+', s): the pieces between the maximal runs of terminators
\* (empty pieces kept at both ends)
RECURSIVE SplitSentences(_, _, _)
SplitSentences(s, cur, inRun) ==
    IF s = <<>> THEN <<cur>>
    ELSE IF IsTerminator(s[1])
         THEN IF inRun THEN SplitSentences(Tail(s), cur, TRUE)
              ELSE <<cur>> \o SplitSentences(Tail(s), <<>>, TRUE)
    ELSE SplitSentences(Tail(s), Append(cur, s[1]), FALSE)

\* str.split(): the maximal runs of non-whitespace characters
RECURSIVE SplitWords(_, _)
SplitWords(s, cur) ==
    IF s = <<>> THEN (IF cur = <<>> THEN <<>> ELSE <<cur>>)
    ELSE IF IsSpace(s[1])
         THEN (IF cur = <<>> THEN <<>> ELSE <<cur>>) \o SplitWords(Tail(s), <<>>)
    ELSE SplitWords(Tail(s), Append(cur, s[1]))

\* [chunk for chunk in xs if chunk.strip()]
RECURSIVE NonBlank(_)
NonBlank(xs) ==
    IF xs = <<>> THEN <<>>
    ELSE (IF strip(xs[1]) # <<>> THEN <<xs[1]>> ELSE <<>>) \o NonBlank(Tail(xs))

-----------------------------------------------------------------------------
(* Embeddings and cosine similarity *)

\* The vectors callers store and queries embed to.
Vectors == {<<1, 0>>, <<2, 0>>, <<0, 1>>}

Dot(a, b) == a[1] * b[1] + a[2] * b[2]

\* np.linalg.norm, exact on the vectors of the model
Norm(a) == CHOOSE n \in 0..5 : n * n = Dot(a, a)

\* EmbeddingService.generate_embeddings on one text: a fixed function of the
\* text (the sentence-transformer model is a black box; same text, same vector).
generate_embeddings(t) ==
    IF Len(t) = 0 THEN <<0, 1>>
    ELSE IF t[1] = "a" THEN <<1, 0>>
    ELSE IF t[1] = "b" THEN <<0, 1>>
    ELSE <<2, 0>>

\* Sign of cosine_sim(q, a) - cosine_sim(q, b), where
\*   cosine_sim(x, y) = dot(x, y) / (norm(x) * norm(y) + 1e-8).
\* With d = dot and n = norm * norm (integers here) the difference has the sign
\* of (d1*n2 - d2*n1) + 1e-8 * (d1 - d2): the first term decides unless it is 0.
cosine_sim_cmp(q, a, b) ==
    LET d1 == Dot(q, a)
        d2 == Dot(q, b)
        n1 == Norm(q) * Norm(a)
        n2 == Norm(q) * Norm(b)
        x  == d1 * n2 - d2 * n1
    IN  IF x > 0 THEN 1
        ELSE IF x < 0 THEN -1
        ELSE IF d1 > d2 THEN 1
        ELSE IF d1 < d2 THEN -1
        ELSE 0

\* The same for the cosine distance of the Qdrant server (no epsilon).
QdrantCosineCmp(q, a, b) ==
    LET x == Dot(q, a) * Norm(q) * Norm(b) - Dot(q, b) * Norm(q) * Norm(a)
    IN  IF x > 0 THEN 1 ELSE IF x < 0 THEN -1 ELSE 0

-----------------------------------------------------------------------------
(* VectorStoreService: the operations, as functions of the backend flag   *)
(* (self.qdrant) and of the mapping collection id -> entries the backend   *)
(* holds.  Each returns the mapping afterwards, whether the call raised,   *)
(* and the value returned.                                                  *)

\* collection ids the store is called with directly
CollIds == {"c1", "c2"}

\* service instances: the module-level vector_store of api/file_processing.py
\* and the one RAGAgentService constructs
Instances == {"file_processing", "rag_agent"}

ChunkIndexes == 0..1

\* the passage text of a payload (opaque to the store)
Contents == {<<"x">>}

Payloads == [chunk_index : ChunkIndexes, content : Contents]

\* the stored entry {"embedding": np.array(vector), **payload}
Entry(vector, payload) ==
    [embedding |-> vector, chunk_index |-> payload.chunk_index,
     content |-> payload.content]

\* point.payload of a stored point
PayloadOf(e) == [chunk_index |-> e.chunk_index, content |-> e.content]

\* a create_collection that assigns the empty list without looking
create_collection_reset(qd, m, c) == Put(m, c, <<>>)

create_collection(qd, m, c) ==
    IF qd
    THEN IF c \notin DOMAIN m THEN Put(m, c, <<>>) ELSE m
    ELSE IF c \notin DOMAIN m THEN Put(m, c, <<>>) ELSE m

\* qdrant.upsert of one point: the point with the same id is replaced
Upsert(points, e) ==
    IF \E i \in 1..Len(points) : points[i].chunk_index = e.chunk_index
    THEN [i \in 1..Len(points) |->
            IF points[i].chunk_index = e.chunk_index THEN e ELSE points[i]]
    ELSE Append(points, e)

add_vector(qd, m, c, vector, payload) ==
    LET m1 == create_collection(qd, m, c)
    IN  IF qd
        THEN [m |-> [m1 EXCEPT ![c] = Upsert(@, Entry(vector, payload))],
              raised |-> FALSE,
              out |-> <<c, "vector", payload.chunk_index>>]
        ELSE [m |-> [m1 EXCEPT ![c] = Append(@, Entry(vector, payload))],
              raised |-> FALSE,
              out |-> <<c, "vector", Len(m1[c]) + 1>>]

\* a delete_collection whose del is not guarded: KeyError on an absent id
delete_collection_unguarded(qd, m, c) ==
    IF c \in DOMAIN m
    THEN [m |-> Del(m, c), raised |-> FALSE, out |-> <<>>]
    ELSE [m |-> m, raised |-> TRUE, out |-> <<>>]

delete_collection(qd, m, c) ==
    IF qd
    THEN [m |-> IF c \in DOMAIN m THEN Del(m, c) ELSE m,
          raised |-> FALSE, out |-> <<>>]
    ELSE [m |-> IF c \in DOMAIN m THEN Del(m, c) ELSE m,
          raised |-> FALSE, out |-> <<>>]

\* scored.sort(reverse=True, key=lambda x: x[0]) by insertion: list.sort is
\* stable, also with reverse=True, so an entry goes after every entry whose
\* similarity is greater than or equal to its own.
\* (an unstable variant: an entry goes before the entries of equal similarity)
InsertScoredUnstable(q, s, e) ==
    LET p == Cardinality({i \in 1..Len(s) :
                            cosine_sim_cmp(q, s[i].embedding, e.embedding) > 0})
    IN  SubSeq(s, 1, p) \o <<e>> \o SubSeq(s, p + 1, Len(s))

InsertScored(q, s, e) ==
    LET p == Cardinality({i \in 1..Len(s) :
                            cosine_sim_cmp(q, s[i].embedding, e.embedding) >= 0})
    IN  SubSeq(s, 1, p) \o <<e>> \o SubSeq(s, p + 1, Len(s))

RECURSIVE SortScored(_, _, _)
SortScored(q, es, n) ==
    IF n = 0 THEN <<>>
    ELSE InsertScored(q, SortScored(q, es, n - 1), es[n])

\* The orders in which the Qdrant server may return all points of a
\* collection: by descending cosine score, points of equal score in any order.
QdrantRankings(q, es) ==
    {[i \in 1..Len(es) |-> es[f[i]]] : f \in
        {g \in Permutations(1..Len(es)) :
            \A i \in 1..Len(es) : \A j \in 1..Len(es) :
                i < j => QdrantCosineCmp(q, es[g[i]].embedding, es[g[j]].embedding) >= 0}}

\* search: the set of outcomes the call can have
search(qd, m, c, query, top_k) ==
    LET query_emb == generate_embeddings(query)
    IN  IF qd
        THEN IF c \notin DOMAIN m
             THEN {[raised |-> TRUE, out |-> <<>>]}
             ELSE {[raised |-> FALSE,
                    out |-> [i \in 1..Min(top_k, Len(r)) |-> PayloadOf(r[i])]] :
                        r \in QdrantRankings(query_emb, m[c])}
        ELSE IF c \notin DOMAIN m \/ m[c] = <<>>
             THEN {[raised |-> FALSE, out |-> <<>>]}
             ELSE {[raised |-> FALSE,
                    out |-> Take(SortScored(query_emb, m[c], Len(m[c])), top_k)]}

-----------------------------------------------------------------------------
(* TextProcessor: cleaning of extracted text *)

\* re.sub(r'\s+', ' ', s)
RECURSIVE CollapseSpaces(_, _)
CollapseSpaces(s, inRun) ==
    IF s = <<>> THEN <<>>
    ELSE IF IsSpace(s[1])
         THEN (IF inRun THEN <<>> ELSE <<" ">>) \o CollapseSpaces(Tail(s), TRUE)
    ELSE <<s[1]>> \o CollapseSpaces(Tail(s), FALSE)

\* \w for the characters of the model
IsWord(ch) ==
    ch \in {"a", "c", "e", "h", "i", "n", "o", "p", "r", "t",
            "A", "C", "P", "S", "1", "_"}

\* the punctuation the second pattern keeps
IsKeptPunctuation(ch) ==
    ch \in {".", ",", "!", "?", ";", ":", "-", "(", ")", "[", "]", "{", "}", "\"", "'"}

\* re.sub(r'[^\w\s\.\,\!\?\;\:\-\(\)\[\]\{\}\"\']+', '', s)
RECURSIVE RemoveSpecial(_)
RemoveSpecial(s) ==
    IF s = <<>> THEN <<>>
    ELSE (IF IsWord(s[1]) \/ IsSpace(s[1]) \/ IsKeptPunctuation(s[1])
          THEN <<s[1]>> ELSE <<>>) \o RemoveSpecial(Tail(s))

\* re.sub(r'\.{3,}', '...', s); run is the number of periods just passed
RECURSIVE CollapsePeriods(_, _)
CollapsePeriods(s, run) ==
    IF s = <<>> THEN <<>>
    ELSE IF s[1] = "."
         THEN (IF run >= 3 THEN <<>> ELSE <<".">>) \o CollapsePeriods(Tail(s), run + 1)
    ELSE <<s[1]>> \o CollapsePeriods(Tail(s), 0)

\* a cleaning that returns the text as it was read
clean_text_raw(s) == s

\* TextProcessor._clean_text
clean_text(s) == strip(CollapsePeriods(RemoveSpecial(CollapseSpaces(s, FALSE)), 0))

-----------------------------------------------------------------------------
(* TextProcessor: recursive chunking *)

\* the loop over the words of an over-long sentence (lines 134-139);
\* st = [chunks, word_chunk]
RECURSIVE WordLoop(_, _, _, _)
WordLoop(words, st, chunk_size, chunk_overlap) ==
    IF words = <<>> THEN st
    ELSE LET word == words[1]
             st1 == IF Len(st.word_chunk \o word) > chunk_size /\ st.word_chunk # <<>>
                    THEN [chunks |-> Append(st.chunks, strip(st.word_chunk)),
                          word_chunk |-> OverlapTail(st.word_chunk, chunk_overlap)]
                    ELSE st
             st2 == [chunks |-> st1.chunks,
                     word_chunk |-> IF st1.word_chunk # <<>>
                                    THEN st1.word_chunk \o <<" ">> \o word
                                    ELSE word]
         IN  WordLoop(Tail(words), st2, chunk_size, chunk_overlap)

\* the loop over the sentences (lines 124-146); st = [chunks, current_chunk]
RECURSIVE SentenceLoop(_, _, _, _)
SentenceLoop(sentences, st, chunk_size, chunk_overlap) ==
    IF sentences = <<>> THEN st
    ELSE LET sentence == sentences[1]
             st1 == IF st.current_chunk # <<>>
                    THEN [chunks |-> Append(st.chunks, strip(st.current_chunk)),
                          current_chunk |-> OverlapTail(st.current_chunk, chunk_overlap)]
                    ELSE st
             AfterWords(w) == [chunks |-> w.chunks,
                               current_chunk |-> IF w.word_chunk # <<>>
                                                 THEN w.word_chunk
                                                 ELSE st1.current_chunk]
             st2 == IF Len(st.current_chunk \o sentence) > chunk_size
                    THEN IF Len(sentence) > chunk_size
                         THEN AfterWords(WordLoop(SplitWords(sentence, <<>>),
                                  [chunks |-> st1.chunks, word_chunk |-> <<>>],
                                  chunk_size, chunk_overlap))
                         ELSE [chunks |-> st1.chunks, current_chunk |-> sentence]
                    ELSE [chunks |-> st.chunks,
                          current_chunk |-> IF st.current_chunk # <<>>
                                            THEN st.current_chunk \o <<".", " ">> \o sentence
                                            ELSE sentence]
         IN  SentenceLoop(Tail(sentences), st2, chunk_size, chunk_overlap)

\* TextProcessor._split_long_text
split_long_text(t, chunk_size, chunk_overlap) ==
    LET Rest(st) == IF st.current_chunk # <<>>
                    THEN Append(st.chunks, strip(st.current_chunk))
                    ELSE st.chunks
    IN  Rest(SentenceLoop(SplitSentences(t, <<>>, FALSE),
                          [chunks |-> <<>>, current_chunk |-> <<>>],
                          chunk_size, chunk_overlap))

\* the loop over the paragraphs (lines 95-110); st = [chunks, current_chunk]
RECURSIVE ParagraphLoop(_, _, _, _)
ParagraphLoop(paragraphs, st, chunk_size, chunk_overlap) ==
    IF paragraphs = <<>> THEN st
    ELSE LET paragraph == paragraphs[1]
             st1 == IF st.current_chunk # <<>>
                    THEN [chunks |-> Append(st.chunks, strip(st.current_chunk)),
                          current_chunk |-> OverlapTail(st.current_chunk, chunk_overlap)]
                    ELSE st
             st2 == IF Len(st.current_chunk \o paragraph) > chunk_size
                    THEN IF Len(paragraph) > chunk_size
                         THEN [chunks |-> st1.chunks \o
                                 split_long_text(paragraph, chunk_size, chunk_overlap),
                               current_chunk |-> <<>>]
                         ELSE [chunks |-> st1.chunks, current_chunk |-> paragraph]
                    ELSE [chunks |-> st.chunks,
                          current_chunk |-> IF st.current_chunk # <<>>
                                            THEN st.current_chunk \o <<NL, NL>> \o paragraph
                                            ELSE paragraph]
         IN  ParagraphLoop(Tail(paragraphs), st2, chunk_size, chunk_overlap)

\* TextProcessor._recursive_chunking, for the settings cfg
recursive_chunking(t, cfg) ==
    LET Rest(st) == IF st.current_chunk # <<>>
                    THEN Append(st.chunks, strip(st.current_chunk))
                    ELSE st.chunks
    IN  NonBlank(Rest(ParagraphLoop(SplitOn(t, <<NL, NL>>, <<>>),
                                    [chunks |-> <<>>, current_chunk |-> <<>>],
                                    cfg.CHUNK_SIZE, cfg.CHUNK_OVERLAP)))

-----------------------------------------------------------------------------
(* TextProcessor: semantic chunking *)

\* [s.strip() for s in sentences if s.strip()]
RECURSIVE StripAll(_)
StripAll(xs) ==
    IF xs = <<>> THEN <<>>
    ELSE (IF strip(xs[1]) # <<>> THEN <<strip(xs[1])>> ELSE <<>>) \o StripAll(Tail(xs))

\* sep.join(parts)
RECURSIVE Join(_, _)
Join(sep, parts) ==
    IF parts = <<>> THEN <<>>
    ELSE IF Len(parts) = 1 THEN parts[1]
    ELSE parts[1] \o sep \o Join(sep, Tail(parts))

\* similarity_matrix[i][j] > threshold, for i < j; sim is the set of the
\* pairs <<i, j>> whose similarity the sentence model puts above 0.5
AboveThreshold(sim, i, j) == <<i, j>> \in sim

\* an inner loop that does not skip the sentences already used
RECURSIVE GroupLoopReusing(_, _, _, _, _, _)
GroupLoopReusing(sentences, sim, i, j, g, chunk_size) ==
    IF j > Len(sentences) THEN g
    ELSE IF AboveThreshold(sim, i, j)
              /\ g.current_length + Len(sentences[j]) < chunk_size
         THEN GroupLoopReusing(sentences, sim, i, j + 1,
                               [group |-> Append(g.group, j),
                                used |-> g.used \cup {j},
                                current_length |-> g.current_length + Len(sentences[j])],
                               chunk_size)
         ELSE GroupLoopReusing(sentences, sim, i, j + 1, g, chunk_size)

\* the inner loop over j (lines 187-196); g = [group, used, current_length]
RECURSIVE GroupLoop(_, _, _, _, _, _)
GroupLoop(sentences, sim, i, j, g, chunk_size) ==
    IF j > Len(sentences) THEN g
    ELSE IF j \notin g.used /\ AboveThreshold(sim, i, j)
              /\ g.current_length + Len(sentences[j]) < chunk_size
         THEN GroupLoop(sentences, sim, i, j + 1,
                        [group |-> Append(g.group, j),
                         used |-> g.used \cup {j},
                         current_length |-> g.current_length + Len(sentences[j])],
                        chunk_size)
         ELSE GroupLoop(sentences, sim, i, j + 1, g, chunk_size)

\* the outer loop over i (lines 178-198): the groups of sentence indices,
\* in the order the chunks are appended
RECURSIVE SeedLoop(_, _, _, _, _)
SeedLoop(sentences, sim, i, used, chunk_size) ==
    IF i > Len(sentences) THEN <<>>
    ELSE IF i \in used THEN SeedLoop(sentences, sim, i + 1, used, chunk_size)
    ELSE LET g == GroupLoop(sentences, sim, i, i + 1,
                            [group |-> <<i>>, used |-> used \cup {i},
                             current_length |-> Len(sentences[i])],
                            chunk_size)
         IN  <<g.group>> \o SeedLoop(sentences, sim, i + 1, g.used, chunk_size)

\* the sentences of a text, as semantic chunking sees them (lines 161-162)
SentencesOf(t) == StripAll(SplitSentences(t, <<>>, FALSE))

semantic_groups(t, cfg, sim) == SeedLoop(SentencesOf(t), sim, 1, {}, cfg.CHUNK_SIZE)

\* TextProcessor._semantic_chunking
semantic_chunking(t, cfg, sim) ==
    LET sentences == SentencesOf(t)
        groups == semantic_groups(t, cfg, sim)
    IN  IF Len(sentences) <= 1 THEN <<t>>
        ELSE [k \in 1..Len(groups) |->
                Join(<<".", " ">>, [x \in 1..Len(groups[k]) |-> sentences[groups[k][x]]])]

-----------------------------------------------------------------------------
(* TextProcessor: custom chunking by section patterns *)

IsUpper(ch) == ch \in {"A", "C", "P", "S"}

IsDigit(ch) == ch \in {"1"}

\* the end (0-based, exclusive) of the longest run of characters of a class
\* that starts at 0-based position i
RECURSIVE SkipSpaces(_, _)
SkipSpaces(s, i) == IF i < Len(s) /\ IsSpace(s[i + 1]) THEN SkipSpaces(s, i + 1) ELSE i

RECURSIVE SkipDigits(_, _)
SkipDigits(s, i) == IF i < Len(s) /\ IsDigit(s[i + 1]) THEN SkipDigits(s, i + 1) ELSE i

RECURSIVE SkipHashes(_, _)
SkipHashes(s, i) == IF i < Len(s) /\ s[i + 1] = "#" THEN SkipHashes(s, i + 1) ELSE i

RECURSIVE SkipUpperOrSpace(_, _)
SkipUpperOrSpace(s, i) ==
    IF i < Len(s) /\ (IsUpper(s[i + 1]) \/ IsSpace(s[i + 1]))
    THEN SkipUpperOrSpace(s, i + 1) ELSE i

HeadingWords == {<<"C", "h", "a", "p", "t", "e", "r">>,
                 <<"S", "e", "c", "t", "i", "o", "n">>,
                 <<"P", "a", "r", "t">>}

\* Each matcher gives the end (0-based, exclusive) of the match of its
\* pattern that starts at 0-based position i, or -1 when there is none.

\* \n\s*(?:Chapter|Section|Part)\s+\d+
MatchHeading(s, i) ==
    IF ~(i < Len(s) /\ s[i + 1] = NL) THEN -1
    ELSE LET j == SkipSpaces(s, i + 1)
         IN  IF \A w \in HeadingWords : ~StartsAt(s, j, w) THEN -1
             ELSE LET w == CHOOSE x \in HeadingWords : StartsAt(s, j, x)
                      k == SkipSpaces(s, j + Len(w))
                  IN  IF k > j + Len(w) /\ SkipDigits(s, k) > k
                      THEN SkipDigits(s, k) ELSE -1

\* \n\s*\d+\.\s+[A-Z]
MatchNumbered(s, i) ==
    IF ~(i < Len(s) /\ s[i + 1] = NL) THEN -1
    ELSE LET j == SkipSpaces(s, i + 1)
             d == SkipDigits(s, j)
             k == SkipSpaces(s, d + 1)
         IN  IF d > j /\ d < Len(s) /\ s[d + 1] = "." /\ k > d + 1
                  /\ k < Len(s) /\ IsUpper(s[k + 1])
             THEN k + 1 ELSE -1

\* \n\s*[A-Z][A-Z\s]+\n : the greedy run ends at its last newline that
\* leaves it at least one character
MatchCapsLine(s, i) ==
    IF ~(i < Len(s) /\ s[i + 1] = NL) THEN -1
    ELSE LET j == SkipSpaces(s, i + 1)
             r == SkipUpperOrSpace(s, j)
             ends == {e \in (j + 2)..(r - 1) : s[e + 1] = NL}
         IN  IF j < Len(s) /\ IsUpper(s[j + 1]) /\ ends # {}
             THEN 1 + CHOOSE e \in ends : \A f \in ends : f <= e
             ELSE -1

\* \n\s*#{1,6}\s+
MatchMarkdown(s, i) ==
    IF ~(i < Len(s) /\ s[i + 1] = NL) THEN -1
    ELSE LET j == SkipSpaces(s, i + 1)
             h == SkipHashes(s, j)
             k == SkipSpaces(s, h)
         IN  IF h > j /\ h - j <= 6 /\ k > h THEN k ELSE -1

\* section_patterns, in the order they are tried
MatchPattern(n, s, i) ==
    CASE n = 1 -> MatchHeading(s, i)
      [] n = 2 -> MatchNumbered(s, i)
      [] n = 3 -> MatchCapsLine(s, i)
      [] n = 4 -> MatchMarkdown(s, i)

\* [m.start() for m in re.finditer(pattern, s)] from position pos on:
\* leftmost matches, each search resuming where the last match ended
RECURSIVE FindStarts(_, _, _)
FindStarts(n, s, pos) ==
    IF pos >= Len(s) THEN <<>>
    ELSE LET Resume(end) == IF end >= 0
                            THEN <<pos>> \o FindStarts(n, s, end)
                            ELSE FindStarts(n, s, pos + 1)
         IN  Resume(MatchPattern(n, s, pos))

\* one section (lines 223-229 and 233-238), stripped: nothing when empty,
\* chunked recursively when over-long
SectionChunks(section_text, cfg) ==
    IF section_text = <<>> THEN <<>>
    ELSE IF Len(section_text) > cfg.CHUNK_SIZE THEN recursive_chunking(section_text, cfg)
    ELSE <<section_text>>

\* the loop over the matches (lines 221-230); st = [chunks, last_end]
RECURSIVE MatchLoop(_, _, _, _)
MatchLoop(s, starts, st, cfg) ==
    IF starts = <<>> THEN st
    ELSE LET start == starts[1]
             more == IF start > st.last_end
                     THEN SectionChunks(strip(Slice(s, st.last_end, start)), cfg)
                     ELSE <<>>
         IN  MatchLoop(s, Tail(starts),
                       [chunks |-> st.chunks \o more, last_end |-> start], cfg)

\* the first pattern, from the n-th on, that has a match (0 when none has)
RECURSIVE FirstPattern(_, _)
FirstPattern(n, s) ==
    IF n > 4 THEN 0
    ELSE IF FindStarts(n, s, 0) # <<>> THEN n
    ELSE FirstPattern(n + 1, s)

\* TextProcessor._custom_chunking
custom_chunking(t, cfg) ==
    LET Rest(st) == st.chunks \o SectionChunks(strip(From(t, st.last_end)), cfg)
        Sections(n) == IF n = 0 THEN recursive_chunking(t, cfg)
                       ELSE Rest(MatchLoop(t, FindStarts(n, t, 0),
                                           [chunks |-> <<>>, last_end |-> 0], cfg))
    IN  Sections(FirstPattern(1, t))

\* The settings the chunker is checked under.  CHUNK_SIZE and CHUNK_OVERLAP
\* are fields of the pydantic settings: 1000 and 200 unless the environment
\* sets them.  The model scales both down to the length of the texts it
\* enumerates, and keeps the overlap below the size and no shorter than the
\* separators (". " and the blank line) the chunker joins with.
ChunkSettings == {[CHUNK_SIZE |-> 3, CHUNK_OVERLAP |-> 2],
                  [CHUNK_SIZE |-> 4, CHUNK_OVERLAP |-> 2]}

DefaultSettings == [CHUNK_SIZE |-> 4, CHUNK_OVERLAP |-> 2]

Methods == {"recursive", "semantic", "custom"}

\* TextProcessor.chunk_text: an unknown method raises ValueError
chunk_text(t, m, cfg, sim) ==
    CASE m = "recursive" -> [raised |-> FALSE, out |-> recursive_chunking(t, cfg)]
      [] m = "semantic"  -> [raised |-> FALSE, out |-> semantic_chunking(t, cfg, sim)]
      [] m = "custom"    -> [raised |-> FALSE, out |-> custom_chunking(t, cfg)]
      [] OTHER           -> [raised |-> TRUE, out |-> <<>>]

-----------------------------------------------------------------------------
(* The vector store driven directly by a caller *)

\* the mapping the instance works on
Active(self) == IF qdrant THEN qdrantDb ELSE collections[self]

SetActive(self, m) ==
    IF qdrant
    THEN qdrantDb' = m /\ UNCHANGED collections
    ELSE collections' = [collections EXCEPT ![self] = m] /\ UNCHANGED qdrantDb

\* the instance the direct calls are made on
Caller == "file_processing"

Queries == {<<"a">>, <<"b">>}

\* top_k = 3 is the default of search
TopKs == 0..3

RECURSIVE SumLen(_, _)
SumLen(m, ids) ==
    IF ids = {} THEN 0
    ELSE LET c == CHOOSE x \in ids : TRUE
         IN  Len(m[c]) + SumLen(m, ids \ {c})

\* number of entries in all collections of a mapping
TotalEntries(m) == SumLen(m, DOMAIN m)

\* existed: whether the collection was present when the call was made
NoCall == [op |-> "none", cid |-> "c1", query |-> <<>>, top_k |-> 0,
           existed |-> FALSE, raised |-> FALSE, out |-> <<>>]

\* VectorStoreService.__init__: settings.VECTOR_DB and the import of
\* qdrant_client decide the backend; the fallback starts with no collection.
StoreInit ==
    /\ qdrant \in BOOLEAN
    /\ collections = [i \in Instances |-> <<>>]
    /\ qdrantDb = <<>>
    /\ ret = NoCall
    /\ cleared = {}

\* completed: the run reached the lines that mark the row completed;
\* error: str(e) of the exception the run caught ("" when it caught none)
NoTask == [pc |-> "idle", file_id |-> 0, file_path |-> 0, chunking_method |-> "",
           text_content |-> <<>>, chunks |-> <<>>, embeddings |-> <<>>,
           collection_id |-> <<>>, i |-> 0, completed |-> FALSE, error |-> ""]

\* no call of process_message made
NoReply == [op |-> "none", collection_name |-> <<>>, message |-> <<>>,
            existed |-> FALSE, ingested |-> <<>>,
            searched |-> FALSE, raised |-> FALSE, search_error |-> "",
            response |-> [kind |-> "none", error |-> "", context |-> <<>>],
            sources |-> <<>>, tools_used |-> <<>>]

\* no file uploaded, no task, no thread inside add_vector
AppIdle ==
    /\ reply = NoReply
    /\ writers = [w \in {"w1", "w2"} |->
                    [pc |-> "idle", cid |-> "c1", vector |-> <<>>,
                     payload |-> <<>>, ref |-> 0]]
    /\ lists = [c \in CollIds |-> 0]
    /\ addLog = [adds |-> <<>>, raced |-> {}, overlapped |-> FALSE]
    /\ files = <<>>
    /\ disk = <<>>
    /\ uploads = 0
    /\ pending = {}
    /\ task = NoTask
    /\ now = 0

\* the chunker at rest
ChunkIdle ==
    /\ settings = DefaultSettings
    /\ text = <<>>
    /\ method = "none"
    /\ similar = {}
    /\ chunks = <<>>

CreateCollection(c) ==
    /\ SetActive(Caller, create_collection(qdrant, Active(Caller), c))
    /\ ret' = [NoCall EXCEPT !.op = "create_collection", !.cid = c,
                            !.existed = (c \in DOMAIN Active(Caller))]
    /\ UNCHANGED <<qdrant, cleared>>
    /\ UNCHANGED chunkVars
    /\ UNCHANGED appVars
    /\ UNCHANGED ragVars
    /\ UNCHANGED concVars

AddVector(c, vector, payload) ==
    /\ TotalEntries(Active(Caller)) < MaxEntries
    /\ LET r == add_vector(qdrant, Active(Caller), c, vector, payload)
       IN  /\ SetActive(Caller, r.m)
           /\ ret' = [NoCall EXCEPT !.op = "add_vector", !.cid = c,
                                    !.existed = (c \in DOMAIN Active(Caller)),
                                    !.raised = r.raised, !.out = r.out]
    /\ cleared' = cleared \ {c}
    /\ UNCHANGED qdrant
    /\ UNCHANGED chunkVars
    /\ UNCHANGED appVars
    /\ UNCHANGED ragVars
    /\ UNCHANGED concVars

DeleteCollection(c) ==
    /\ LET r == delete_collection(qdrant, Active(Caller), c)
       IN  /\ SetActive(Caller, r.m)
           /\ ret' = [NoCall EXCEPT !.op = "delete_collection", !.cid = c,
                                    !.existed = (c \in DOMAIN Active(Caller)),
                                    !.raised = r.raised]
           /\ cleared' = IF r.raised THEN cleared ELSE cleared \cup {c}
    /\ UNCHANGED qdrant
    /\ UNCHANGED chunkVars
    /\ UNCHANGED appVars
    /\ UNCHANGED ragVars
    /\ UNCHANGED concVars

Search(c, query, top_k) ==
    /\ \E r \in search(qdrant, Active(Caller), c, query, top_k) :
           ret' = [op |-> "search", cid |-> c, query |-> query, top_k |-> top_k,
                   existed |-> (c \in DOMAIN Active(Caller)),
                   raised |-> r.raised, out |-> r.out]
    /\ UNCHANGED <<qdrant, collections, qdrantDb, cleared>>
    /\ UNCHANGED chunkVars
    /\ UNCHANGED appVars
    /\ UNCHANGED ragVars
    /\ UNCHANGED concVars

Init == StoreInit /\ ChunkIdle /\ AppIdle

Next ==
    \/ \E c \in CollIds : CreateCollection(c)
    \/ \E c \in CollIds : \E v \in Vectors : \E p \in Payloads : AddVector(c, v, p)
    \/ \E c \in CollIds : DeleteCollection(c)
    \/ \E c \in CollIds : \E q \in Queries : \E k \in TopKs : Search(c, q, k)

Spec == Init /\ [][Next]_vars

-----------------------------------------------------------------------------
(* Concurrent callers of add_vector                                          *)
(*                                                                           *)
(* add_vector holds no lock.  A caller's thread can be switched out between  *)
(* the membership test of create_collection and its assignment, and between  *)
(* the lookup of the list and the append to it (line 47 evaluates            *)
(* self.collections[collection_id] before it builds the entry); with Qdrant, *)
(* get_collections, recreate_collection and upsert are separate requests to  *)
(* the server.  Each of these is one step of a writer.                       *)

Writers == {"w1", "w2"}

\* the add a writer is given: the k-th add started has chunk_index k - 1
WriterVector == <<1, 0>>

WriterPayload(k) == [chunk_index |-> k - 1, content |-> <<"x">>]

\* another writer is inside an add (to the collection c, when onSame)
Overlaps(w, c, onSame) ==
    \E v \in Writers \ {w} :
        writers[v].pc # "idle" /\ (onSame => writers[v].cid = c)

\* a thread calls add_vector(c, vector, payload)
StartAdd(w, c) ==
    /\ writers[w].pc = "idle"
    /\ Len(addLog.adds) < MaxAdds
    /\ writers' = [writers EXCEPT ![w] =
                      [pc |-> "check", cid |-> c, vector |-> WriterVector,
                       payload |-> WriterPayload(Len(addLog.adds) + 1), ref |-> 0]]
    /\ addLog' = [adds |-> Append(addLog.adds,
                              [cid |-> c,
                               entry |-> Entry(WriterVector,
                                               WriterPayload(Len(addLog.adds) + 1))]),
                  raced |-> IF Overlaps(w, c, TRUE)
                            THEN addLog.raced \cup {c} ELSE addLog.raced,
                  overlapped |-> addLog.overlapped \/ Overlaps(w, c, FALSE)]
    /\ UNCHANGED lists
    /\ UNCHANGED storeVars
    /\ UNCHANGED chunkVars
    /\ UNCHANGED appVars
    /\ UNCHANGED ragVars

\* create_collection, the test: collection_id not in self.collections
\* (line 33), or not among the names the server lists (line 27)
AddCheck(w) ==
    /\ writers[w].pc = "check"
    /\ writers' = [writers EXCEPT ![w].pc =
                      IF writers[w].cid \notin DOMAIN Active(Caller)
                      THEN "create" ELSE "lookup"]
    /\ UNCHANGED <<lists, addLog>>
    /\ UNCHANGED storeVars
    /\ UNCHANGED chunkVars
    /\ UNCHANGED appVars
    /\ UNCHANGED ragVars

\* an assignment that keeps nothing but the new list
StoreNewListOnly(m, c) == [x \in {c} |-> <<>>]

\* self.collections[collection_id] = [] (line 34); recreate_collection
\* (line 28) drops the collection of that name and creates it anew
StoreNewList(m, c) == Put(m, c, <<>>)

\* create_collection, the creation, whatever is under the name by now
AddCreate(w) ==
    /\ writers[w].pc = "create"
    /\ SetActive(Caller, StoreNewList(Active(Caller), writers[w].cid))
    /\ lists' = [lists EXCEPT ![writers[w].cid] = @ + 1]
    /\ writers' = [writers EXCEPT ![w].pc = "lookup"]
    /\ UNCHANGED addLog
    /\ UNCHANGED <<qdrant, ret, cleared>>
    /\ UNCHANGED chunkVars
    /\ UNCHANGED appVars
    /\ UNCHANGED ragVars

\* line 47, first half: self.collections[collection_id] gives the list
\* object that is under the name now
AddLookup(w) ==
    /\ writers[w].pc = "lookup"
    /\ ~qdrant
    /\ writers' = [writers EXCEPT ![w].pc = "append",
                                  ![w].ref = lists[writers[w].cid]]
    /\ UNCHANGED <<lists, addLog>>
    /\ UNCHANGED storeVars
    /\ UNCHANGED chunkVars
    /\ UNCHANGED appVars
    /\ UNCHANGED ragVars

\* line 47, second half: the append to the list object looked up; it shows
\* in the collection only when that list is still the one under the name
AddAppend(w) ==
    /\ writers[w].pc = "append"
    /\ IF lists[writers[w].cid] = writers[w].ref
       THEN SetActive(Caller,
                [Active(Caller) EXCEPT ![writers[w].cid] =
                    Append(@, Entry(writers[w].vector, writers[w].payload))])
       ELSE UNCHANGED <<collections, qdrantDb>>
    /\ writers' = [writers EXCEPT ![w].pc = "idle"]
    /\ UNCHANGED <<lists, addLog>>
    /\ UNCHANGED <<qdrant, ret, cleared>>
    /\ UNCHANGED chunkVars
    /\ UNCHANGED appVars
    /\ UNCHANGED ragVars

\* lines 38-44: the upsert of the point on the server
AddUpsert(w) ==
    /\ writers[w].pc = "lookup"
    /\ qdrant
    /\ SetActive(Caller,
           [Active(Caller) EXCEPT ![writers[w].cid] =
               Upsert(@, Entry(writers[w].vector, writers[w].payload))])
    /\ writers' = [writers EXCEPT ![w].pc = "idle"]
    /\ UNCHANGED <<lists, addLog>>
    /\ UNCHANGED <<qdrant, ret, cleared>>
    /\ UNCHANGED chunkVars
    /\ UNCHANGED appVars
    /\ UNCHANGED ragVars

AddsNext ==
    \/ \E w \in Writers : \E c \in CollIds : StartAdd(w, c)
    \/ \E w \in Writers : AddCheck(w)
    \/ \E w \in Writers : AddCreate(w)
    \/ \E w \in Writers : AddLookup(w)
    \/ \E w \in Writers : AddAppend(w)
    \/ \E w \in Writers : AddUpsert(w)

SpecAdds == Init /\ [][AddsNext]_vars

-----------------------------------------------------------------------------
(* The chunker applied to a text *)

\* what a text is made of: single characters and one heading word
Pieces == {<<"a">>, <<" ">>, <<".">>, <<NL>>, <<"A">>, <<"1">>, <<"#">>,
           <<"P", "a", "r", "t">>}

RECURSIVE TextsOf(_)
TextsOf(n) ==
    IF n = 0 THEN {<<>>}
    ELSE {p \o t : p \in Pieces, t \in TextsOf(n - 1)} \cup TextsOf(n - 1)

Texts == TextsOf(MaxPieces)

\* The outcomes of the sentence model on the sentences of a text: any set of
\* pairs i < j above the threshold that holds every pair of equal sentences
\* (the cosine similarity of a sentence with itself is 1).
Similarities(t) ==
    LET sentences == SentencesOf(t)
        pairs == {<<i, j>> \in (1..Len(sentences)) \X (1..Len(sentences)) : i < j}
    IN  {sim \in SUBSET pairs :
            \A pr \in pairs : sentences[pr[1]] = sentences[pr[2]] => pr \in sim}

ChunkInit ==
    /\ StoreInit
    /\ AppIdle
    /\ qdrant = FALSE
    /\ settings \in ChunkSettings
    /\ text \in Texts
    /\ method = "none"
    /\ similar = {}
    /\ chunks = <<>>

ChunkText(m) ==
    /\ method = "none"
    /\ method' = m
    /\ \E sim \in (IF m = "semantic" THEN Similarities(text) ELSE {{}}) :
          /\ similar' = sim
          /\ chunks' = chunk_text(text, m, settings, sim).out
    /\ UNCHANGED <<settings, text>>
    /\ UNCHANGED storeVars
    /\ UNCHANGED appVars
    /\ UNCHANGED ragVars
    /\ UNCHANGED concVars

ChunkNext == \E m \in Methods : ChunkText(m)

SpecChunk == ChunkInit /\ [][ChunkNext]_vars

-----------------------------------------------------------------------------
(* Semantic chunking applied to texts of several sentences *)

\* what a sentence of such a text is: a word, or a word after a blank,
\* with the terminator that ends it
SentencePieces == {<<"a", ".">>, <<"A", "!">>, <<" ", "a", "a", ".">>,
                   <<"P", "a", "r", "t", "?", " ">>}

RECURSIVE SentenceTextsOf(_)
SentenceTextsOf(n) ==
    IF n = 0 THEN {<<>>}
    ELSE {p \o t : p \in SentencePieces, t \in SentenceTextsOf(n - 1)}
            \cup SentenceTextsOf(n - 1)

SentenceTexts == SentenceTextsOf(MaxSentences)

SemanticInit ==
    /\ StoreInit
    /\ AppIdle
    /\ qdrant = FALSE
    /\ settings \in ChunkSettings
    /\ text \in SentenceTexts
    /\ method = "none"
    /\ similar = {}
    /\ chunks = <<>>

SemanticNext == ChunkText("semantic")

SpecSemantic == SemanticInit /\ [][SemanticNext]_vars

-----------------------------------------------------------------------------
(* Upload, background ingestion and deletion of files (api/file_processing.py) *)
(*                                                                           *)
(* process_file_background is a coroutine without an await: once started it  *)
(* runs to its end before the event loop serves another request.  The model  *)
(* takes it in steps, and lets no request handler act while a run is between *)
(* its first and its last step.  A task that was added and has not started   *)
(* waits in pending, where requests may be served before it.                 *)

FileIds == 1..MaxFiles

\* what the uploaded files hold (the raw text the extraction reads)
RawFiles == {<<>>,
             <<"a", ".", " ", "A", ".", " ", "1">>,
             <<"#", "a", NL, NL, "A">>}

\* chunking_method is a free string of the request
UploadMethods == Methods \cup {"other"}

\* the module-level vector_store the ingestion and delete_file work on
Ingest == "file_processing"

\* no run is between its first and its last step
LoopFree == task.pc \in {"idle", "done"}

RECURSIVE MaxOf(_)
MaxOf(S) == IF S = {} THEN 0
            ELSE LET x == CHOOSE y \in S : TRUE
                 IN  IF MaxOf(S \ {x}) > x THEN MaxOf(S \ {x}) ELSE x

\* The id the table gives a new row.  DATABASE_URL is a SQLite file and id is
\* an INTEGER PRIMARY KEY without AUTOINCREMENT: the largest id in the table
\* plus one, so the id of a deleted last row is given out again.
NewId == MaxOf(DOMAIN files) + 1

\* upload_file: the file is saved under a path no other upload has (the
\* uuid4 prefix; the model numbers the uploads), the row is stored with
\* status pending and the task is added with the row's id and the path.
Upload(raw, m) ==
    /\ LoopFree
    /\ uploads < MaxFiles
    /\ uploads' = uploads + 1
    /\ disk' = Put(disk, uploads + 1, raw)
    /\ files' = Put(files, NewId,
                    [processing_status |-> "pending", chunking_method |-> m,
                     file_path |-> uploads + 1, chunk_count |-> 0,
                     vector_collection_id |-> <<>>, error_message |-> ""])
    /\ pending' = pending \cup {[file_id |-> NewId, file_path |-> uploads + 1,
                                 chunking_method |-> m]}
    /\ UNCHANGED <<task, now>>
    /\ UNCHANGED storeVars
    /\ UNCHANGED chunkVars
    /\ UNCHANGED ragVars
    /\ UNCHANGED concVars

\* an except branch that swallows the error
MarkFailedSilent(f, msg) == files

\* the except branch (lines 176-181): the row, when there is one, is marked
\* failed with the error text
MarkFailed(f, msg) ==
    IF f \in DOMAIN files
    THEN [files EXCEPT ![f].processing_status = "failed", ![f].error_message = msg]
    ELSE files

\* lines 128-134: the run starts; a row that is gone makes the first
\* assignment raise, and the except branch finds no row
BgStart(t) ==
    /\ LoopFree
    /\ t \in pending
    /\ pending' = pending \ {t}
    /\ IF t.file_id \in DOMAIN files
       THEN /\ files' = [files EXCEPT ![t.file_id].processing_status = "processing"]
            /\ task' = [NoTask EXCEPT !.pc = "extract", !.file_id = t.file_id,
                                      !.file_path = t.file_path,
                                      !.chunking_method = t.chunking_method]
       ELSE /\ files' = files
            /\ task' = [NoTask EXCEPT !.pc = "done", !.file_id = t.file_id,
                                      !.file_path = t.file_path,
                                      !.chunking_method = t.chunking_method,
                                      !.error = "'NoneType' object has no attribute"]
    /\ UNCHANGED <<disk, uploads, now>>
    /\ UNCHANGED storeVars
    /\ UNCHANGED chunkVars
    /\ UNCHANGED ragVars
    /\ UNCHANGED concVars

\* line 137: text_processor.extract_text opens the file at file_path, which
\* raises when delete_file has removed it
BgExtract ==
    /\ task.pc = "extract"
    /\ IF task.file_path \in DOMAIN disk
       THEN /\ task' = [task EXCEPT !.pc = "chunk",
                                    !.text_content = clean_text(disk[task.file_path])]
            /\ files' = files
       ELSE /\ task' = [task EXCEPT !.pc = "done", !.error = "No such file or directory"]
            /\ files' = MarkFailed(task.file_id, "No such file or directory")
    /\ UNCHANGED <<disk, uploads, pending, now>>
    /\ UNCHANGED storeVars
    /\ UNCHANGED chunkVars
    /\ UNCHANGED ragVars
    /\ UNCHANGED concVars

\* line 141: text_processor.chunk_text; an unknown method raises
BgChunk ==
    /\ task.pc = "chunk"
    /\ \E sim \in (IF task.chunking_method = "semantic"
                   THEN Similarities(task.text_content) ELSE {{}}) :
          \E r \in {chunk_text(task.text_content, task.chunking_method, settings, sim)} :
              IF r.raised
              THEN /\ files' = MarkFailed(task.file_id, "Unknown chunking method")
                   /\ task' = [task EXCEPT !.pc = "done",
                                           !.error = "Unknown chunking method"]
              ELSE /\ files' = files
                   /\ task' = [task EXCEPT !.pc = "embed", !.chunks = r.out]
    /\ UNCHANGED <<disk, uploads, pending, now>>
    /\ UNCHANGED storeVars
    /\ UNCHANGED chunkVars
    /\ UNCHANGED ragVars
    /\ UNCHANGED concVars

\* line 146: embedding_service.generate_embeddings, one vector per chunk
BgEmbed ==
    /\ task.pc = "embed"
    /\ task' = [task EXCEPT !.pc = "create",
                  !.embeddings = [k \in 1..Len(task.chunks) |->
                                     generate_embeddings(task.chunks[k])]]
    /\ UNCHANGED <<files, disk, uploads, pending, now>>
    /\ UNCHANGED storeVars
    /\ UNCHANGED chunkVars
    /\ UNCHANGED ragVars
    /\ UNCHANGED concVars

\* f"file_{file_id}_{int(time.time())}"
CollectionId(f, t) == <<"file", f, t>>

\* lines 150-151: the collection of the run is named and created
BgCreate ==
    /\ task.pc = "create"
    /\ task' = [task EXCEPT !.pc = "add", !.collection_id = CollectionId(task.file_id, now)]
    /\ SetActive(Ingest, create_collection(qdrant, Active(Ingest),
                                           CollectionId(task.file_id, now)))
    /\ UNCHANGED <<files, disk, uploads, pending, now>>
    /\ UNCHANGED <<qdrant, ret, cleared>>
    /\ UNCHANGED chunkVars
    /\ UNCHANGED ragVars
    /\ UNCHANGED concVars

\* the payload of the k-th chunk (k from 1): enumerate counts from 0
IngestPayload(k, chunk) == [chunk_index |-> k - 1, content |-> chunk]

\* lines 155-166: one turn of the loop over zip(chunks, embeddings)
BgAdd ==
    /\ task.pc = "add"
    /\ task.i < Min(Len(task.chunks), Len(task.embeddings))
    /\ SetActive(Ingest,
                 add_vector(qdrant, Active(Ingest), task.collection_id,
                            task.embeddings[task.i + 1],
                            IngestPayload(task.i + 1, task.chunks[task.i + 1])).m)
    /\ task' = [task EXCEPT !.i = task.i + 1]
    /\ UNCHANGED <<files, disk, uploads, pending, now>>
    /\ UNCHANGED <<qdrant, ret, cleared>>
    /\ UNCHANGED chunkVars
    /\ UNCHANGED ragVars
    /\ UNCHANGED concVars

\* lines 170-175: the row is marked completed
BgComplete ==
    /\ task.pc = "add"
    /\ task.i = Min(Len(task.chunks), Len(task.embeddings))
    /\ files' = [files EXCEPT ![task.file_id].processing_status = "completed",
                              ![task.file_id].chunk_count = Len(task.chunks),
                              ![task.file_id].vector_collection_id = task.collection_id]
    /\ task' = [task EXCEPT !.pc = "done", !.completed = TRUE]
    /\ UNCHANGED <<disk, uploads, pending, now>>
    /\ UNCHANGED storeVars
    /\ UNCHANGED chunkVars
    /\ UNCHANGED ragVars
    /\ UNCHANGED concVars

\* str(e) of the exception the environment raises at a step of the run
ErrorText(pc) ==
    IF pc = "extract" THEN "cannot read the file"
    ELSE IF pc = "embed" THEN "embedding model failed"
    ELSE "connection refused"

\* A call that the environment makes fail: reading or parsing the file
\* (extract), the embedding model (embed), and, with the Qdrant backend, the
\* server (create, add).  The except branch marks the row failed.
BgRaise ==
    /\ \/ task.pc \in {"extract", "embed"}
       \/ task.pc = "create" /\ qdrant
       \/ task.pc = "add" /\ qdrant
            /\ task.i < Min(Len(task.chunks), Len(task.embeddings))
    /\ files' = MarkFailed(task.file_id, ErrorText(task.pc))
    /\ task' = [task EXCEPT !.pc = "done", !.error = ErrorText(task.pc)]
    /\ UNCHANGED <<disk, uploads, pending, now>>
    /\ UNCHANGED storeVars
    /\ UNCHANGED chunkVars
    /\ UNCHANGED ragVars
    /\ UNCHANGED concVars

\* delete_file (lines 236-263): the collection the row names is deleted, then
\* the file on disk and the row.  fails: the Qdrant server makes
\* delete_collection raise, the handler rolls back and answers 500.
DeleteFile(f, fails) ==
    /\ LoopFree
    /\ f \in DOMAIN files
    /\ fails => (qdrant /\ files[f].vector_collection_id # <<>>)
    /\ IF fails
       THEN UNCHANGED <<files, disk, collections, qdrantDb>>
       ELSE /\ files' = Del(files, f)
            /\ disk' = Del(disk, files[f].file_path)
            /\ IF files[f].vector_collection_id # <<>>
               THEN SetActive(Ingest, delete_collection(qdrant, Active(Ingest),
                                         files[f].vector_collection_id).m)
               ELSE UNCHANGED <<collections, qdrantDb>>
    /\ UNCHANGED <<uploads, pending, task, now>>
    /\ UNCHANGED <<qdrant, ret, cleared>>
    /\ UNCHANGED chunkVars
    /\ UNCHANGED ragVars
    /\ UNCHANGED concVars

\* a second passes
Tick ==
    /\ now < MaxTime
    /\ now' = now + 1
    /\ UNCHANGED <<files, disk, uploads, pending, task>>
    /\ UNCHANGED storeVars
    /\ UNCHANGED chunkVars
    /\ UNCHANGED ragVars
    /\ UNCHANGED concVars

AppInit == StoreInit /\ ChunkIdle /\ AppIdle

AppNext ==
    \/ \E raw \in RawFiles : \E m \in UploadMethods : Upload(raw, m)
    \/ \E t \in pending : BgStart(t)
    \/ BgExtract
    \/ BgChunk
    \/ BgEmbed
    \/ BgCreate
    \/ BgAdd
    \/ BgComplete
    \/ BgRaise
    \/ \E f \in FileIds : \E fails \in BOOLEAN : DeleteFile(f, fails)
    \/ Tick

SpecApp == AppInit /\ [][AppNext]_vars

-----------------------------------------------------------------------------
(* Extraction and chunking of one uploaded file, for any content *)

\* the chunking methods whose results are compared
ExtractMethods == {"recursive", "custom"}

ExtractInit ==
    /\ StoreInit
    /\ AppIdle
    /\ qdrant = FALSE
    /\ settings \in ChunkSettings
    /\ text = <<>>
    /\ method = "none"
    /\ similar = {}
    /\ chunks = <<>>

\* one file is uploaded and its run goes through extract_text (line 137)
\* and chunk_text (line 141)
ExtractNext ==
    \/ uploads = 0 /\ \E raw \in Texts : \E m \in ExtractMethods : Upload(raw, m)
    \/ \E t \in pending : BgStart(t)
    \/ BgExtract
    \/ BgChunk

SpecExtract == ExtractInit /\ [][ExtractNext]_vars

-----------------------------------------------------------------------------
(* The answerer: RAGAgentService.process_message and the /chat endpoint *)

\* the vector_store of the RAGAgentService, an instance of its own
Answerer == "rag_agent"

Messages == {<<"a">>}

\* the collection names a caller asks about: those the ingestion can give
\* out, whether or not they exist
AnswerNames == {CollectionId(f, t) : f \in FileIds, t \in 0..MaxTime}

\* str(e) of the error of the Qdrant server for a collection it does not have
NotFoundText == "Not found: Collection doesn't exist"

\* "doesn't exist" in str(e) or "Not found" in str(e)
IndicatesMissing(e) == e = NotFoundText

\* self.vector_store.search(collection_name, message), top_k left at its
\* default: what search gives on the answerer's backend, and the failures of
\* the environment (the embedding model; with Qdrant, the server)
SearchCall(c, message) ==
    {[raised |-> r.raised, error |-> IF r.raised THEN NotFoundText ELSE "", out |-> r.out] :
        r \in search(qdrant, Active(Answerer), c, message, 3)}
    \cup {[raised |-> TRUE, error |-> "embedding model failed", out |-> <<>>]}
    \cup (IF qdrant
          THEN {[raised |-> TRUE, error |-> "connection refused", out |-> <<>>]}
          ELSE {})

\* a process_message that lets the error of search through
process_message_raising(c, message) ==
    {[searched |-> TRUE, raised |-> o.raised, search_error |-> o.error,
      response |-> [kind |-> "answer", error |-> "", context |-> <<>>],
      sources |-> o.out, tools_used |-> <<"vector_search">>] :
        o \in SearchCall(c, message)}

\* a process_message that searches whether or not it was given a name
process_message_searching(c, message) ==
    {[searched |-> TRUE, raised |-> FALSE, search_error |-> o.error,
      response |-> [kind |-> "no_context", error |-> "", context |-> <<>>],
      sources |-> <<>>, tools_used |-> <<"vector_search">>] :
        o \in SearchCall(c, message)}

\* RAGAgentService.process_message: the outcomes of a call.  c = <<>> is
\* collection_name=None.  The kinds of response: not_found (line 19), error
\* with the error text (line 25), no_context (lines 34-35, the fixed "could
\* not find relevant information" answer) and answer (line 32).
process_message(c, message) ==
    IF c = <<>>
    THEN {[searched |-> FALSE, raised |-> FALSE, search_error |-> "",
           response |-> [kind |-> "no_context", error |-> "", context |-> <<>>],
           sources |-> <<>>, tools_used |-> <<"vector_search">>]}
    ELSE {[searched |-> TRUE, raised |-> FALSE, search_error |-> o.error,
           response |->
               IF o.raised
               THEN IF IndicatesMissing(o.error)
                    THEN [kind |-> "not_found", error |-> "", context |-> <<>>]
                    ELSE [kind |-> "error", error |-> o.error, context |-> <<>>]
               ELSE IF o.out # <<>>
                    THEN [kind |-> "answer", error |-> "",
                          context |-> [k \in 1..Len(o.out) |-> o.out[k].content]]
                    ELSE [kind |-> "no_context", error |-> "", context |-> <<>>],
           sources |-> IF o.raised THEN <<>> ELSE o.out,
           tools_used |-> <<"vector_search">>] :
              o \in SearchCall(c, message)}

\* the entries a backend mapping holds under an id (none when absent)
Held(m, c) == IF c \in DOMAIN m THEN m[c] ELSE <<>>

\* a call of process_message.  existed: the answerer's backend had the
\* collection; ingested: what the ingestion's backend held under the name
Answer(op, c, message) ==
    /\ LoopFree
    /\ \E r \in process_message(c, message) :
          reply' = [op |-> op, collection_name |-> c, message |-> message,
                    existed |-> (c \in DOMAIN Active(Answerer)),
                    ingested |-> Held(Active(Ingest), c),
                    searched |-> r.searched, raised |-> r.raised,
                    search_error |-> r.search_error, response |-> r.response,
                    sources |-> r.sources, tools_used |-> r.tools_used]
    /\ UNCHANGED storeVars
    /\ UNCHANGED chunkVars
    /\ UNCHANGED appVars
    /\ UNCHANGED concVars

\* process_message called with a collection name
ProcessMessage(c, message) == Answer("process_message", c, message)

\* chat_with_agent (lines 77-83): process_message is called without a
\* collection_name, and ChatRequest has no field for one
Chat(message) == Answer("chat", <<>>, message)

\* the documents uploaded when the answerer is asked
RagFiles == {<<"a", ".", " ", "A", ".", " ", "1">>}

RagNext ==
    \/ \E raw \in RagFiles : Upload(raw, "recursive")
    \/ \E t \in pending : BgStart(t)
    \/ BgExtract
    \/ BgChunk
    \/ BgEmbed
    \/ BgCreate
    \/ BgAdd
    \/ BgComplete
    \/ BgRaise
    \/ \E f \in FileIds : \E fails \in BOOLEAN : DeleteFile(f, fails)
    \/ Tick
    \/ \E c \in AnswerNames \cup {<<>>} : \E msg \in Messages : ProcessMessage(c, msg)
    \/ \E msg \in Messages : Chat(msg)

SpecRag == AppInit /\ [][RagNext]_vars

-----------------------------------------------------------------------------
(* Properties of the vector store *)

\* the entries the caller's backend holds under an id (none when absent)
EntriesOf(c) == IF c \in DOMAIN Active(Caller) THEN Active(Caller)[c] ELSE <<>>

\* C1: a search on a collection that does not exist, or that holds no entry,
\* returns an empty sequence and does not raise.
C1_SearchAbsentOrEmptyIsEmpty ==
    (ret.op = "search" /\ EntriesOf(ret.cid) = <<>>)
        => (~ret.raised /\ ret.out = <<>>)

\* C2: a collection holds at most one entry per chunk_index.
C2_OneEntryPerChunkIndex ==
    \A c \in DOMAIN Active(Caller) :
        \A i \in 1..Len(EntriesOf(c)) : \A j \in 1..Len(EntriesOf(c)) :
            i # j => EntriesOf(c)[i].chunk_index # EntriesOf(c)[j].chunk_index

\* C3: after delete_collection(id), and until an add to id, no entry of id is
\* held and a search on id returns an empty result.
C3_DeletedStaysEmpty ==
    \A c \in cleared :
        /\ EntriesOf(c) = <<>>
        /\ (ret.op = "search" /\ ret.cid = c) => (~ret.raised /\ ret.out = <<>>)

\* C4: delete_collection on an id that does not exist raises nothing and
\* changes no collection.
C4_DeleteAbsentIsNoOp ==
    [][\A c \in CollIds :
          (ret'.op = "delete_collection" /\ ret'.cid = c /\ ret' # ret
             /\ c \notin DOMAIN Active(Caller))
          => (~ret'.raised /\ collections' = collections /\ qdrantDb' = qdrantDb)]_vars

C4_Witness ==
    /\ ret.op = "delete_collection" /\ ~ret.existed /\ ~ret.raised
    /\ \E d \in DOMAIN Active(Caller) : d # ret.cid /\ Len(EntriesOf(d)) = 2

\* C5: an add creates the collection when it is absent; create_collection on
\* an existing id changes nothing; a collection that is present stays present
\* in every step that is not a delete_collection on it.
C5_CollectionLifetime ==
    [][\A c \in CollIds :
          /\ (ret'.op = "add_vector" /\ ret'.cid = c /\ ~ret'.raised /\ ret' # ret)
                => c \in DOMAIN Active(Caller)'
          /\ (ret'.op = "create_collection" /\ ret'.cid = c /\ ret' # ret
                /\ c \in DOMAIN Active(Caller))
                => (collections' = collections /\ qdrantDb' = qdrantDb)
          /\ (c \in DOMAIN Active(Caller) /\ c \notin DOMAIN Active(Caller)')
                => (ret'.op = "delete_collection" /\ ret'.cid = c)]_vars

C5_Witness ==
    /\ ret.op = "create_collection" /\ ret.existed
    /\ Len(EntriesOf(ret.cid)) = 2
    /\ \E d \in DOMAIN Active(Caller) : d # ret.cid

\* entry i ranks before entry j: greater similarity, or equal similarity and
\* inserted earlier
RanksBefore(q, es, i, j) ==
    \/ cosine_sim_cmp(q, es[i].embedding, es[j].embedding) = 1
    \/ cosine_sim_cmp(q, es[i].embedding, es[j].embedding) = 0 /\ i < j

RankOf(q, es, i) ==
    1 + Cardinality({j \in 1..Len(es) : j # i /\ RanksBefore(q, es, j, i)})

\* C6: on the in-process backend a search returns the first min(top_k, n)
\* entries in the order of descending similarity, ties in insertion order.
C6_SearchIsStableTopK ==
    (~qdrant /\ ret.op = "search")
        => LET es == EntriesOf(ret.cid)
               q  == generate_embeddings(ret.query)
           IN  /\ ~ret.raised
               /\ Len(ret.out) = Min(ret.top_k, Len(es))
               /\ \A p \in 1..Len(ret.out) :
                     \E i \in 1..Len(es) :
                        RankOf(q, es, i) = p /\ ret.out[p] = es[i]

\* a search that truncates, over entries of equal similarity that differ
C6_Witness ==
    /\ ~qdrant /\ ret.op = "search" /\ ret.top_k = 1
    /\ Len(EntriesOf(ret.cid)) = 2
    /\ EntriesOf(ret.cid)[1] # EntriesOf(ret.cid)[2]
    /\ cosine_sim_cmp(generate_embeddings(ret.query),
                      EntriesOf(ret.cid)[1].embedding,
                      EntriesOf(ret.cid)[2].embedding) = 0
    /\ ret.out = <<EntriesOf(ret.cid)[1]>>

-----------------------------------------------------------------------------
(* Properties of the chunker *)

\* C7: every chunk of recursive chunking is at most CHUNK_SIZE +
\* CHUNK_OVERLAP characters long.
C7_RecursiveChunksBounded ==
    method = "recursive"
        => \A i \in 1..Len(chunks) :
              Len(chunks[i]) <= settings.CHUNK_SIZE + settings.CHUNK_OVERLAP

\* the non-whitespace characters of a string, in order
RECURSIVE NonSpace(_)
NonSpace(s) ==
    IF s = <<>> THEN <<>>
    ELSE (IF IsSpace(s[1]) THEN <<>> ELSE <<s[1]>>) \o NonSpace(Tail(s))

\* the lengths an overlap region at the head of chunk c can have: a prefix
\* of c, of at most overlap characters, that ends the chunk before it
OverlapRegions(prev, c, overlap) ==
    {p \in 0..Min(overlap, Min(Len(prev), Len(c))) :
        SubSeq(c, 1, p) = SubSeq(prev, Len(prev) - p + 1, Len(prev))}

\* the chunks cs, each without an overlap region at its head, spell the
\* non-whitespace characters rest
RECURSIVE Reconstructs(_, _, _, _)
Reconstructs(cs, prev, rest, overlap) ==
    IF cs = <<>> THEN rest = <<>>
    ELSE \E p \in OverlapRegions(prev, cs[1], overlap) :
            LET body == NonSpace(From(cs[1], p))
            IN  /\ Len(body) <= Len(rest)
                /\ SubSeq(rest, 1, Len(body)) = body
                /\ Reconstructs(Tail(cs), cs[1], From(rest, Len(body)), overlap)

\* C8: the chunks of recursive chunking, overlap regions left out, hold the
\* non-whitespace characters of the text, all of them and in order.
C8_RecursiveKeepsNonWhitespace ==
    method = "recursive"
        => Reconstructs(chunks, <<>>, NonSpace(text), settings.CHUNK_OVERLAP)

\* C9: whatever the method and the text, no chunk is empty or whitespace only.
C9_NoBlankChunk ==
    method \in Methods => \A i \in 1..Len(chunks) : strip(chunks[i]) # <<>>

-----------------------------------------------------------------------------
(* Properties of the ingestion *)

\* the entries the ingestion's backend holds under an id (none when absent)
IngestedEntries(c) == IF c \in DOMAIN Active(Ingest) THEN Active(Ingest)[c] ELSE <<>>

\* the last run completed, and the row it completed still names its collection
IngestionCompleted ==
    /\ task.pc = "done" /\ task.completed
    /\ task.file_id \in DOMAIN files
    /\ files[task.file_id].processing_status = "completed"
    /\ files[task.file_id].vector_collection_id = task.collection_id

\* C10: after a completed ingestion of a document that the chunker split into
\* n passages, the document's collection holds n entries and, for every i in
\* 0..n-1, the entry with chunk_index = i has the i-th passage as content.
C10_EntriesAreThePassages ==
    IngestionCompleted =>
        /\ task.collection_id \in DOMAIN Active(Ingest)
        /\ Len(IngestedEntries(task.collection_id)) = Len(task.chunks)
        /\ \A i \in 0..(Len(task.chunks) - 1) :
              /\ \E k \in 1..Len(IngestedEntries(task.collection_id)) :
                    IngestedEntries(task.collection_id)[k].chunk_index = i
              /\ \A k \in 1..Len(IngestedEntries(task.collection_id)) :
                    IngestedEntries(task.collection_id)[k].chunk_index = i
                        => IngestedEntries(task.collection_id)[k].content = task.chunks[i + 1]

\* C11: when extraction, chunking, embedding or an add raises during a run,
\* the run ends with the row marked failed and error_message the error text,
\* and not as completed.
C11_RaiseMarksFailed ==
    [][(task.pc \in {"extract", "chunk", "embed", "add"} /\ task'.pc = "done"
            /\ task'.error # "")
          => /\ ~task'.completed
             /\ task.file_id \in DOMAIN files'
             /\ files'[task.file_id].processing_status = "failed"
             /\ files'[task.file_id].error_message = task'.error]_vars

\* a run that failed in its third add: the row is failed with the error text
C11_Witness ==
    /\ task.pc = "done" /\ task.error = "connection refused" /\ task.i = 2
    /\ task.file_id \in DOMAIN files
    /\ files[task.file_id].processing_status = "failed"
    /\ files[task.file_id].error_message = task.error

-----------------------------------------------------------------------------
(* Properties of the answerer *)

\* C12: when the search raises, process_message returns normally with no
\* sources and tools_used = ["vector_search"]: the not-found message when the
\* error says the collection does not exist, else a message with the error text.
C12_SearchErrorIsAnswered ==
    (reply.op # "none" /\ reply.search_error # "")
        => /\ ~reply.raised
           /\ reply.sources = <<>>
           /\ reply.tools_used = <<"vector_search">>
           /\ IF IndicatesMissing(reply.search_error)
              THEN reply.response.kind = "not_found"
              ELSE /\ reply.response.kind = "error"
                   /\ reply.response.error = reply.search_error

\* the server fails on a search of a collection that holds entries
C12_Witness ==
    /\ reply.op = "process_message" /\ reply.search_error = "connection refused"
    /\ reply.existed /\ reply.ingested # <<>>
    /\ reply.response.kind = "error"

\* C13: process_message against a collection id that does not exist returns
\* the fixed could-not-find-relevant-information answer, no sources and
\* tools_used = ["vector_search"] (the environment not failing).
C13_MissingCollectionIsNoContext ==
    (reply.op = "process_message" /\ reply.collection_name # <<>> /\ ~reply.existed
        /\ reply.search_error \in {"", NotFoundText})
        => /\ reply.response.kind = "no_context"
           /\ reply.sources = <<>>
           /\ reply.tools_used = <<"vector_search">>

\* C14: without a collection_name process_message does not search, and
\* returns the fixed no-context answer with no sources.
C14_NoNameNoSearch ==
    (reply.op # "none" /\ reply.collection_name = <<>>)
        => /\ ~reply.searched
           /\ reply.response.kind = "no_context"
           /\ reply.sources = <<>>

\* process_message itself called without a name, while the backend it would
\* search holds a collection with entries
C14_Witness ==
    /\ reply.op = "process_message" /\ reply.collection_name = <<>>
    /\ ~reply.searched /\ reply.response.kind = "no_context"
    /\ \E c \in DOMAIN Active(Answerer) : Active(Answerer)[c] # <<>>

\* C16: a /chat request reaches process_message with a collection_name, and
\* a search is made.
C16_ChatNamesACollection ==
    reply.op = "chat" => (reply.collection_name # <<>> /\ reply.searched)

\* C17: with the in-process backend, a search of the answerer on a collection
\* the ingestion has filled returns a non-empty result.
C17_IngestedIsVisible ==
    (~qdrant /\ reply.op = "process_message" /\ reply.ingested # <<>>
        /\ reply.search_error = "")
        => reply.sources # <<>>

-----------------------------------------------------------------------------
(* Properties of concurrent adds *)

\* every writer is back from its call
WritersDone == \A w \in Writers : writers[w].pc = "idle"

RECURSIVE AddedTo(_, _)
\* the entries of the adds to c, in the order the adds were started
AddedTo(adds, c) ==
    IF adds = <<>> THEN <<>>
    ELSE IF adds[Len(adds)].cid = c
         THEN Append(AddedTo(SubSeq(adds, 1, Len(adds) - 1), c),
                     adds[Len(adds)].entry)
         ELSE AddedTo(SubSeq(adds, 1, Len(adds) - 1), c)

\* C15: once the writers are back, a collection whose adds never overlapped
\* one another holds exactly the entries added to it, in order, whatever
\* adds to other collections ran in between
C15_OtherCollectionsDoNotInterfere ==
    WritersDone =>
        \A c \in CollIds :
            c \notin addLog.raced =>
                Held(Active(Caller), c) = AddedTo(addLog.adds, c)

\* two adds to different collections overlapped in time and both are done
C15_Witness ==
    /\ WritersDone
    /\ addLog.overlapped
    /\ addLog.raced = {}
    /\ \A c \in CollIds : AddedTo(addLog.adds, c) # <<>>

\* C19: once the writers are back, every collection holds every entry that
\* was added to it, overlapping adds to the same collection included
C19_SameCollectionAddsSerialize ==
    WritersDone =>
        \A c \in CollIds :
            \A k \in 1..Len(AddedTo(addLog.adds, c)) :
                \E j \in 1..Len(Held(Active(Caller), c)) :
                    Held(Active(Caller), c)[j] = AddedTo(addLog.adds, c)[k]

-----------------------------------------------------------------------------
(* Properties of delete_file against the ingestion *)

\* the file id in a collection name file_<id>_<seconds>
FileOf(c) == c[2]

\* no run of process_file_background is under way or still to come
IngestionFinished == LoopFree /\ pending = {}

\* C18: once the ingestion has finished, the vector store holds no collection
\* created for a file that delete_file has removed: every collection belongs
\* to a row of the table, whether the run completed or failed and whenever
\* the delete came
C18_DeleteRemovesCollection ==
    IngestionFinished =>
        \A c \in DOMAIN Active(Ingest) : FileOf(c) \in DOMAIN files

-----------------------------------------------------------------------------
(* Properties of the overlap between recursive chunks *)

\* The flushes of the loop over the paragraphs that a next paragraph caused
\* (line 97 true, line 98 true): the buffer that was flushed and the chunks
\* the list held once it was appended (line 99); st as in ParagraphLoop.
RECURSIVE ParagraphFlushes(_, _, _, _)
ParagraphFlushes(paragraphs, st, chunk_size, chunk_overlap) ==
    IF paragraphs = <<>> THEN <<>>
    ELSE LET Then(next) ==
                 (IF Len(st.current_chunk \o paragraphs[1]) > chunk_size
                        /\ st.current_chunk # <<>>
                  THEN <<[buffer |-> st.current_chunk,
                          emitted |-> Append(st.chunks, strip(st.current_chunk))]>>
                  ELSE <<>>)
                 \o ParagraphFlushes(Tail(paragraphs), next, chunk_size, chunk_overlap)
         IN  Then(ParagraphLoop(<<paragraphs[1]>>, st, chunk_size, chunk_overlap))

\* the flushes of _recursive_chunking on the text t
FlushesOf(t, cfg) ==
    ParagraphFlushes(SplitOn(t, <<NL, NL>>, <<>>),
                     [chunks |-> <<>>, current_chunk |-> <<>>],
                     cfg.CHUNK_SIZE, cfg.CHUNK_OVERLAP)

\* the place, in the list returned, of the chunk that follows a flush
\* (line 116 drops the blank chunks)
NextPlace(flush) == Len(NonBlank(flush.emitted)) + 1

\* C20: after a flush that a next paragraph caused, of a buffer longer than
\* CHUNK_OVERLAP, the next chunk returned begins with the last CHUNK_OVERLAP
\* characters of the flushed buffer (stripped, as every chunk is)
C20_FlushSeedsNextChunk ==
    method = "recursive" =>
        \A k \in 1..Len(FlushesOf(text, settings)) :
            (/\ Len(FlushesOf(text, settings)[k].buffer) > settings.CHUNK_OVERLAP
             /\ NextPlace(FlushesOf(text, settings)[k]) <= Len(chunks))
            => StartsAt(chunks[NextPlace(FlushesOf(text, settings)[k])], 0,
                        strip(OverlapTail(FlushesOf(text, settings)[k].buffer,
                                          settings.CHUNK_OVERLAP)))

-----------------------------------------------------------------------------
(* Properties of semantic chunking *)

\* the groups of sentence positions behind the chunks returned
GroupsOf == semantic_groups(text, settings, similar)

\* how often the sentence position n occurs in the groups
Occurrences(groups, n) ==
    Cardinality({kx \in (1..Len(groups)) \X (1..Len(SentencesOf(text))) :
                    kx[2] <= Len(groups[kx[1]]) /\ groups[kx[1]][kx[2]] = n})

\* len(s) summed over the first x sentences of a group
RECURSIVE GroupLength(_, _, _)
GroupLength(sentences, group, x) ==
    IF x = 0 THEN 0
    ELSE Len(sentences[group[x]]) + GroupLength(sentences, group, x - 1)

\* C21: for a text of several sentences, every chunk is the sentences of one
\* group joined; every sentence is in exactly one group; the groups come in
\* increasing order of their seed; and a sentence after the seed is in a
\* group only if it lies after the seed, was in no earlier group, its
\* similarity to the seed is above the threshold and the summed length of
\* the group with it stays under CHUNK_SIZE
C21_SemanticGroupsPartition ==
    (method = "semantic" /\ Len(SentencesOf(text)) > 1) =>
        /\ Len(chunks) = Len(GroupsOf)
        /\ \A k \in 1..Len(GroupsOf) :
              chunks[k] = Join(<<".", " ">>,
                               [x \in 1..Len(GroupsOf[k]) |->
                                   SentencesOf(text)[GroupsOf[k][x]]])
        /\ \A n \in 1..Len(SentencesOf(text)) : Occurrences(GroupsOf, n) = 1
        /\ \A k \in 1..(Len(GroupsOf) - 1) : GroupsOf[k][1] < GroupsOf[k + 1][1]
        /\ \A k \in 1..Len(GroupsOf) :
              \A x \in 2..Len(GroupsOf[k]) :
                 /\ GroupsOf[k][1] < GroupsOf[k][x]
                 /\ AboveThreshold(similar, GroupsOf[k][1], GroupsOf[k][x])
                 /\ GroupLength(SentencesOf(text), GroupsOf[k], x) < settings.CHUNK_SIZE
                 /\ \A h \in 1..(k - 1) : \A y \in 1..Len(GroupsOf[h]) :
                        GroupsOf[h][y] # GroupsOf[k][x]

\* three sentences chunked: the third joined the first, and the second,
\* similar to the third, is a group of its own
C21_Witness ==
    /\ method = "semantic"
    /\ Len(SentencesOf(text)) = 3
    /\ <<2, 3>> \in similar
    /\ GroupsOf = <<<<1, 3>>, <<2>>>>

-----------------------------------------------------------------------------
(* Properties of the processing status *)

\* the steps a row's processing_status may take
StatusSteps == {<<"pending", "processing">>,
                <<"processing", "completed">>,
                <<"processing", "failed">>}

\* the row f is there before and after the step and is the row of the same
\* upload (an id given out again after a delete is another file's row)
SameRow(f) ==
    /\ f \in DOMAIN files
    /\ f \in DOMAIN files'
    /\ files[f].file_path = files'[f].file_path

\* C22: a row starts pending without a collection name; its status moves
\* only pending -> processing -> completed or failed, so completed and
\* failed are final; and vector_collection_id changes only in the step to
\* completed, so no pending, processing or failed row has one
C22_StatusMovesForward ==
    [][\A f \in DOMAIN files' :
          /\ SameRow(f) =>
                /\ \/ files'[f].processing_status = files[f].processing_status
                   \/ <<files[f].processing_status, files'[f].processing_status>>
                          \in StatusSteps
                /\ files'[f].vector_collection_id # files[f].vector_collection_id
                      => /\ files[f].processing_status = "processing"
                         /\ files'[f].processing_status = "completed"
          /\ ~SameRow(f) =>
                /\ files'[f].processing_status = "pending"
                /\ files'[f].vector_collection_id = <<>>
          /\ files'[f].vector_collection_id # <<>>
                => files'[f].processing_status = "completed"]_vars

-----------------------------------------------------------------------------
(* Properties of custom chunking on extracted text *)

\* the run has the text that extract_text returned
Extracted == task.pc \in {"chunk", "embed"}

\* C23: the text extract_text returns holds no newline, so it is one
\* paragraph and no section pattern matches in it; and chunk_text with the
\* method custom returns for it the chunks the method recursive returns
C23_CustomIsRecursiveOnExtracted ==
    /\ Extracted =>
          /\ \A k \in 1..Len(task.text_content) : task.text_content[k] # NL
          /\ SplitOn(task.text_content, <<NL, NL>>, <<>>) = <<task.text_content>>
          /\ FirstPattern(1, task.text_content) = 0
    /\ (task.pc = "embed" /\ task.chunking_method = "custom") =>
          task.chunks = chunk_text(task.text_content, "recursive", settings, {}).out

\* a file in which a section pattern matches, and which the two methods
\* would chunk differently as it is, was extracted and chunked with custom
C23_Witness ==
    /\ task.pc = "embed"
    /\ task.chunking_method = "custom"
    /\ task.file_path \in DOMAIN disk
    /\ FirstPattern(1, disk[task.file_path]) # 0
    /\ custom_chunking(disk[task.file_path], settings)
          # recursive_chunking(disk[task.file_path], settings)
    /\ task.chunks # <<>>

=============================================================================
